---- MODULE Spec2Model ----
(***************************************************************************)
(* A model of the data-reconciliation core of immo-eliza-scraping:         *)
(*   - the record merger, combine_csv_files of clean_data.py;              *)
(*   - the concatenate-then-deduplicate combiner, combine_csv_files of     *)
(*     combine_csv.py;                                                     *)
(*   - the field cleaning pipeline, DataCleaningPipeline of pipelines.py.  *)
(*                                                                         *)
(* Encoding.  A cell of a data frame is an integer: NULL (0) is pandas'    *)
(* NaN/None, every other value is a positive integer standing for one      *)
(* opaque CSV value.  property_id values are strings in this repository    *)
(* ('RBU60928'), so the id column has dtype object and a missing id is the *)
(* one shared NaN object; the integers that stand for ids carry the order  *)
(* of those strings.  A text handled by the cleaning pipeline is a         *)
(* sequence of one-character strings.                                      *)
(***************************************************************************)
EXTENDS Integers, Sequences, FiniteSets, TLC

VARIABLES
    pc,           \* position of the running program
    file1,        \* the CSV at file1_path: [cols : Seq(column), rows : Seq(row)]
    file2,        \* the CSV at file2_path
    combined_df,  \* the frame combine_csv_files returns: [cols, rows]
    field_name,   \* _smart_clean: the field being cleaned
    value,        \* _smart_clean: its raw value
    cleaned,      \* _smart_clean: the value returned
    recleaned,    \* _smart_clean: the value returned for the cleaned value
    item,         \* process_item: the fields the item object holds
    raw_item,     \* the fields the item held when process_item was called
    result,       \* process_item: the object returned
    again,        \* the frame drop_duplicates returns for combined_df
    max_pages,    \* spider: self.max_pages
    next_page,    \* spider: listing pages start_requests has yielded so far
    metrics,      \* spider: self.metrics
    seen_details, \* spider: self._seen_details
    pending,      \* requests handed to the engine and not yet answered
    listings,     \* parse_listing generators that have not finished
    items,        \* the items the callbacks have yielded, in order
    sent,         \* per detail URL: requests issued and responses handled
    feed_fields,  \* the fields option of the feed, handed to the exporter
    fields_to_export,     \* exporter: self.fields_to_export
    headers_not_written,  \* exporter: self._headers_not_written
    csv,          \* exporter: the rows written to the file
    exported      \* the items passed to export_item, in order

crawlVars == <<max_pages, next_page, metrics, seen_details, pending, listings,
               items, sent>>
exportVars == <<feed_fields, fields_to_export, headers_not_written, csv, exported>>

vars == <<pc, file1, file2, combined_df, field_name, value, cleaned, recleaned,
          item, raw_item, result, again, crawlVars, exportVars>>

(***************************************************************************)
(* Bounds of the model.                                                    *)
(***************************************************************************)
MaxRows == 2      \* rows per input file
NumKeys == 2      \* distinct non-null property ids
NumVals == 2      \* distinct non-null values of a data column
MaxLen == 3       \* length of the enumerated raw values of a field
SchemaRows == 1   \* rows per input file where the files have two data columns
MaxPagesArg == 2  \* largest max_pages argument of the spider
MaxLinks == 2     \* anchors on a listing page
MaxExports == 3   \* items handed to the exporter

NULL == 0         \* NaN / None
Type1Name == 11   \* type1_name, the default property_type of file1
Type2Name == 12   \* type2_name, the default property_type of file2
StartPage == 1    \* start_page, the first listing page of the spider
Villa == Type2Name + 1   \* an explicit property_type found in a file

KeyValues == 0..NumKeys
DataValues == 0..NumVals
TypeValues == {NULL, Villa}

(***************************************************************************)
(* Sequence helpers.                                                       *)
(***************************************************************************)
Range(s) == {s[i] : i \in 1..Len(s)}

RECURSIVE Flatten(_)
Flatten(ss) == IF ss = <<>> THEN <<>> ELSE Head(ss) \o Flatten(Tail(ss))

\* all orders in which the elements of a set can be iterated
Orders(S) == {o \in [1..Cardinality(S) -> S] : Range(o) = S}


Digits == <<"0", "1", "2", "3", "4", "5", "6", "7", "8", "9">>

\* str(n) of an integer
RECURSIVE NatToText(_)
NatToText(n) ==
    IF n < 10 THEN <<Digits[n + 1]>>
    ELSE Append(NatToText(n \div 10), Digits[(n % 10) + 1])
IntToText(n) == IF n < 0 THEN <<"-">> \o NatToText(0 - n) ELSE NatToText(n)

(***************************************************************************)
(* Python values: None, a str or an int.                                   *)
(***************************************************************************)
None == [t |-> "none", n |-> 0, s |-> <<>>]
PyStr(x) == [t |-> "str", n |-> 0, s |-> x]
PyIntValue(k) == [t |-> "int", n |-> k, s |-> <<>>]
\* float(text): the text that would be converted
PyFloat(x) == [t |-> "float", n |-> 0, s |-> x]

\* an exception that leaves the call instead of a value
Raised == [t |-> "raise", n |-> 0, s |-> <<>>]

\* not v
Falsy(v) == v = None \/ v = PyStr(<<>>) \/ v = PyIntValue(0)
\* str(v)
ToText(v) == IF v.t = "int" THEN IntToText(v.n) ELSE v.s

(***************************************************************************)
(* Data frames.  A frame is [cols, rows]: cols is the ordered sequence of  *)
(* column names and every row is a function from the columns to cells.     *)
(* Inside combine_csv_files a row also carries where it came from: a is    *)
(* its row number in file1 (0: none) and b its row number in file2.        *)
(***************************************************************************)
ColumnChoices ==
    { <<"property_id">>,
      <<"property_id", "property_type">>,
      <<"property_id", "price">>,
      <<"property_id", "property_type", "price">> }

CellValues(c) ==
    CASE c = "property_id" -> KeyValues
      [] c = "property_type" -> TypeValues
      [] OTHER -> DataValues

RowsOver(cols) ==
    {r \in [Range(cols) -> KeyValues \cup TypeValues \cup DataValues] :
        \A c \in Range(cols) : r[c] \in CellValues(c)}

\* the files with these columns and at most max rows
FramesUpTo(cols, max) ==
    {[cols |-> cols, rows |-> rs] :
        rs \in UNION {[1..n -> RowsOver(cols)] : n \in 0..max}}

\* the CSV files with one of these column lists and at most max rows
CsvFilesOver(choices, max) == UNION {FramesUpTo(cols, max) : cols \in choices}

\* a cell of a row, null when the row has no such column
Cell(r, c) == IF c \in DOMAIN r THEN r[c] ELSE NULL

Tag(df, side) ==
    [cols |-> df.cols,
     rows |-> [i \in 1..Len(df.rows) |->
                 [vals |-> df.rows[i],
                  a |-> IF side = 1 THEN i ELSE 0,
                  b |-> IF side = 2 THEN i ELSE 0]]]

\* pd.read_csv followed by the property_type default
ReadCsv(file, type_name) ==
    IF "property_type" \notin Range(file.cols)
    THEN [cols |-> Append(file.cols, "property_type"),
          rows |-> [i \in 1..Len(file.rows) |->
                      [c \in Range(file.cols) \cup {"property_type"} |->
                          IF c = "property_type" THEN type_name
                          ELSE file.rows[i][c]]]]
    ELSE [cols |-> file.cols,
          rows |-> [i \in 1..Len(file.rows) |->
                      [file.rows[i] EXCEPT !["property_type"] =
                          IF @ = NULL THEN type_name ELSE @]]]

\* a column fill that writes the value 1 instead of None
AddColumnsFilled(df, order) ==
    [cols |-> df.cols \o order,
     rows |-> [i \in 1..Len(df.rows) |->
                 [vals |-> [c \in Range(df.cols) \cup Range(order) |->
                              IF c \in Range(df.cols) THEN df.rows[i].vals[c]
                              ELSE 1],
                  a |-> df.rows[i].a,
                  b |-> df.rows[i].b]]]

\* for col in order: df[col] = None
AddColumns(df, order) ==
    [cols |-> df.cols \o order,
     rows |-> [i \in 1..Len(df.rows) |->
                 [vals |-> [c \in Range(df.cols) \cup Range(order) |->
                              IF c \in Range(df.cols) THEN df.rows[i].vals[c]
                              ELSE NULL],
                  a |-> df.rows[i].a,
                  b |-> df.rows[i].b]]]

\* temp_combined.notna().sum() of one column
NonNullCount(rows, c) == Cardinality({i \in 1..Len(rows) : rows[i].vals[c] # NULL})

\* sorted(non_null_counts.items(), key=lambda x: x[1], reverse=True): a stable
\* sort of cols (the dict's order), larger counts first
SortedCols(cols, count) ==
    LET n == Len(cols)
        Before(i, j) == \/ count[cols[i]] > count[cols[j]]
                        \/ count[cols[i]] = count[cols[j]] /\ i < j
        Rank(i) == 1 + Cardinality({j \in 1..n : Before(j, i)})
    IN [k \in 1..n |-> cols[CHOOSE i \in 1..n : Rank(i) = k]]

\* df[all_columns]
Reindex(df, all_columns) == [cols |-> all_columns, rows |-> df.rows]

\* set(df['property_id'])
IdSet(df) == {df.rows[i].vals["property_id"] : i \in 1..Len(df.rows)}

\* a filter that keeps one row per id
IsInOncePerId(df, ids) ==
    LET idx == SelectSeq([i \in 1..Len(df.rows) |-> i],
                         LAMBDA i : /\ df.rows[i].vals["property_id"] \in ids
                                    /\ \A j \in 1..(i - 1) :
                                         df.rows[j].vals["property_id"]
                                           # df.rows[i].vals["property_id"])
    IN [n \in 1..Len(idx) |-> df.rows[idx[n]]]

\* df[df['property_id'].isin(ids)]
IsIn(df, ids) ==
    LET Keep(r) == r.vals["property_id"] \in ids
    IN SelectSeq(df.rows, Keep)

IdColumn(rows) == [i \in 1..Len(rows) |-> rows[i].vals["property_id"]]

IsUnique(s) == \A i, j \in 1..Len(s) : s[i] = s[j] => i = j

\* the ids of a set in ascending order, NaN last
SortedIds(ids) ==
    LET nn == ids \ {NULL}
        n == Cardinality(nn)
        asc == [k \in 1..n |-> CHOOSE x \in nn : Cardinality({y \in nn : y < x}) = k - 1]
    IN IF NULL \in ids THEN Append(asc, NULL) ELSE asc

\* the distinct ids of a column in order of first appearance
RECURSIVE FirstSeen(_)
FirstSeen(s) ==
    IF s = <<>> THEN <<>>
    ELSE LET init == FirstSeen(SubSeq(s, 1, Len(s) - 1))
             x == s[Len(s)]
         IN IF x \in Range(init) THEN init ELSE Append(init, x)

\* The orders in which the outer join of two unequal indexes lists its labels:
\* sorted when both are unique (Index.union); with duplicate labels the join
\* lists them sorted or in order of first appearance, depending on the pandas
\* release.
JoinOrders(ia, ib) ==
    IF IsUnique(ia) /\ IsUnique(ib)
    THEN {SortedIds(Range(ia) \cup Range(ib))}
    ELSE {SortedIds(Range(ia) \cup Range(ib)), FirstSeen(ia \o ib)}

\* a combine_first in which the other frame's values win
CombineRowOtherWins(ra, rb) ==
    [vals |-> [c \in DOMAIN ra.vals |->
                 IF rb.vals[c] # NULL THEN rb.vals[c] ELSE ra.vals[c]],
     a |-> ra.a,
     b |-> rb.b]

\* one row of df1_common.combine_first(df2_common)
CombineRow(ra, rb) ==
    [vals |-> [c \in DOMAIN ra.vals |->
                 IF ra.vals[c] # NULL THEN ra.vals[c] ELSE rb.vals[c]],
     a |-> ra.a,
     b |-> rb.b]

\* df1_common.combine_first(df2_common) on the property_id index: equal
\* indexes are combined row by row; otherwise the indexes are outer-joined,
\* every row of a label with every row of the same label on the other side.
CombineFirst(ca, cb, order) ==
    IF IdColumn(ca) = IdColumn(cb)
    THEN [i \in 1..Len(ca) |-> CombineRow(ca[i], cb[i])]
    ELSE LET WithId(rows, k) ==
                 LET Same(r) == r.vals["property_id"] = k
                 IN SelectSeq(rows, Same)
             Pairs(k) ==
                 LET as == WithId(ca, k)
                     bs == WithId(cb, k)
                 IN Flatten([i \in 1..Len(as) |->
                               [j \in 1..Len(bs) |-> CombineRow(as[i], bs[j])]])
         IN Flatten([n \in 1..Len(order) |-> Pairs(order[n])])

\* the frames of clean_data.combine_csv_files after loading (line 33)
Loaded1 == Tag(ReadCsv(file1, Type1Name), 1)
Loaded2 == Tag(ReadCsv(file2, Type2Name), 2)

cols_only_in_df1 == Range(Loaded1.cols) \ Range(Loaded2.cols)
cols_only_in_df2 == Range(Loaded2.cols) \ Range(Loaded1.cols)

\* all_columns, given the frame df1 after the missing columns were added
AllColumns(df1, df2) ==
    LET temp_combined == df1.rows \o df2.rows
        counted == SelectSeq(df1.cols, LAMBDA c : c # "property_id")
        non_null_counts == [c \in Range(counted) |-> NonNullCount(temp_combined, c)]
    IN <<"property_id">> \o SortedCols(counted, non_null_counts)

\* a merge that leaves out the rows whose id is in file2 only
MergeWithoutOther(o1, o2, order) ==
    LET d2 == AddColumns(Loaded2, o1)
        d1 == AddColumns(Loaded1, o2)
        all_columns == AllColumns(d1, d2)
        df1 == Reindex(d1, all_columns)
        df2 == Reindex(d2, all_columns)
        common_ids == IdSet(df1) \cap IdSet(df2)
        df1_unique == IsIn(df1, IdSet(df1) \ IdSet(df2))
        df1_common == IsIn(df1, common_ids)
        df2_common == IsIn(df2, common_ids)
    IN [cols |-> all_columns,
        rows |-> IF common_ids # {}
                 THEN df1_unique \o CombineFirst(df1_common, df2_common, order)
                 ELSE df1_unique]

\* clean_data.combine_csv_files from line 47 on: o1 and o2 are the orders in
\* which the two column sets are iterated, order the label order of the join
Merge(o1, o2, order) ==
    LET d2 == AddColumns(Loaded2, o1)
        d1 == AddColumns(Loaded1, o2)
        all_columns == AllColumns(d1, d2)
        df1 == Reindex(d1, all_columns)
        df2 == Reindex(d2, all_columns)
        df1_ids == IdSet(df1)
        df2_ids == IdSet(df2)
        common_ids == df1_ids \cap df2_ids
        unique_to_df1 == df1_ids \ df2_ids
        unique_to_df2 == df2_ids \ df1_ids
        df1_unique == IsIn(df1, unique_to_df1)
        df2_unique == IsIn(df2, unique_to_df2)
        df1_common == IsIn(df1, common_ids)
        df2_common == IsIn(df2, common_ids)
    IN [cols |-> all_columns,
        rows |-> IF common_ids # {}
                 THEN df1_unique \o df2_unique
                        \o CombineFirst(df1_common, df2_common, order)
                 ELSE df1_unique \o df2_unique]

CommonIds == IdSet(Loaded1) \cap IdSet(Loaded2)

NoFrame == [cols |-> <<>>, rows |-> <<>>]
NoText == <<>>
NoItem == [f \in {} |-> None]
NoResult == "none"

\* the spider and the exporter before anything is constructed
NoCrawl ==
    /\ max_pages = 0
    /\ next_page = 0
    /\ metrics = <<>>
    /\ seen_details = {}
    /\ pending = <<>>
    /\ listings = {}
    /\ items = <<>>
    /\ sent = <<>>
NoExport ==
    /\ feed_fields = <<>>
    /\ fields_to_export = <<>>
    /\ headers_not_written = TRUE
    /\ csv = <<>>
    /\ exported = <<>>

InitFiles ==
    /\ pc = "start"
    /\ file1 \in CsvFilesOver(ColumnChoices, MaxRows)
    /\ file2 \in CsvFilesOver(ColumnChoices, MaxRows)
    /\ combined_df = NoFrame
    /\ field_name = NoText
    /\ value = None
    /\ cleaned = None
    /\ recleaned = None
    /\ item = NoItem
    /\ raw_item = NoItem
    /\ result = NoResult
    /\ again = NoFrame
    /\ NoCrawl
    /\ NoExport

\* combine_csv_files of clean_data.py
CleanDataCombine ==
    /\ pc = "start"
    /\ \E o1 \in Orders(cols_only_in_df1), o2 \in Orders(cols_only_in_df2) :
         \E order \in JoinOrders(IdColumn(IsIn(Loaded1, CommonIds)),
                                 IdColumn(IsIn(Loaded2, CommonIds))) :
            combined_df' = Merge(o1, o2, order)
    /\ pc' = "done"
    /\ UNCHANGED <<file1, file2, field_name, value, cleaned, recleaned,
                 item, raw_item, result,
                   again, crawlVars, exportVars>>

NextMerge == CleanDataCombine

SpecMerge == InitFiles /\ [][NextMerge]_vars

(***************************************************************************)
(* combine_csv_files of clean_data.py on files with two data columns and   *)
(* at most SchemaRows rows: the inputs on which the column order shows.    *)
(***************************************************************************)
SchemaColumnChoices ==
    { <<"property_id">>,
      <<"property_id", "price">>,
      <<"property_id", "rooms">>,
      <<"property_id", "price", "rooms">>,
      <<"property_id", "rooms", "price">>,
      <<"property_id", "property_type", "price", "rooms">> }

InitSchema ==
    /\ pc = "start"
    /\ file1 \in CsvFilesOver(SchemaColumnChoices, SchemaRows)
    /\ file2 \in CsvFilesOver(SchemaColumnChoices, SchemaRows)
    /\ combined_df = NoFrame
    /\ field_name = NoText
    /\ value = None
    /\ cleaned = None
    /\ recleaned = None
    /\ item = NoItem
    /\ raw_item = NoItem
    /\ result = NoResult
    /\ again = NoFrame
    /\ NoCrawl
    /\ NoExport

SpecSchema == InitSchema /\ [][NextMerge]_vars


(***************************************************************************)
(* combine_csv.py: concatenate, then drop duplicate property ids.          *)
(***************************************************************************)
\* pd.concat([df1, df2], ignore_index=True, sort=False)
Concat(df1, df2) ==
    LET new == SelectSeq(df2.cols, LAMBDA c : c \notin Range(df1.cols))
        cols == df1.cols \o new
        Widen(r) == [vals |-> [c \in Range(cols) |-> Cell(r.vals, c)],
                     a |-> r.a,
                     b |-> r.b]
    IN [cols |-> cols,
        rows |-> [i \in 1..(Len(df1.rows) + Len(df2.rows)) |->
                    IF i <= Len(df1.rows) THEN Widen(df1.rows[i])
                    ELSE Widen(df2.rows[i - Len(df1.rows)])]]

\* a drop_duplicates that keeps the last row of every id
DropDuplicatesKeepLast(df) ==
    LET Last(i) == \A j \in (i + 1)..Len(df.rows) :
                       df.rows[j].vals["property_id"] # df.rows[i].vals["property_id"]
        idx == SelectSeq([i \in 1..Len(df.rows) |-> i], Last)
    IN [cols |-> df.cols, rows |-> [n \in 1..Len(idx) |-> df.rows[idx[n]]]]

\* a drop_duplicates with keep=False: no row of a repeated id is left
DropDuplicatesKeepNone(df) ==
    LET Single(i) == \A j \in 1..Len(df.rows) :
                         j # i => df.rows[j].vals["property_id"] # df.rows[i].vals["property_id"]
        idx == SelectSeq([i \in 1..Len(df.rows) |-> i], Single)
    IN [cols |-> df.cols, rows |-> [n \in 1..Len(idx) |-> df.rows[idx[n]]]]

\* a deduplication that fills the empty cells of the first row of an id
\* from the later rows of that id
DropDuplicatesFilling(df) ==
    LET id(i) == df.rows[i].vals["property_id"]
        First(i) == \A j \in 1..(i - 1) : id(j) # id(i)
        idx == SelectSeq([i \in 1..Len(df.rows) |-> i], First)
        Filled(i, c) ==
            LET same == {j \in i..Len(df.rows) : id(j) = id(i) /\ df.rows[j].vals[c] # NULL}
            IN IF same = {} THEN NULL
               ELSE df.rows[CHOOSE j \in same : \A x \in same : j <= x].vals[c]
    IN [cols |-> df.cols,
        rows |-> [n \in 1..Len(idx) |->
                    [df.rows[idx[n]] EXCEPT
                        !.vals = [c \in DOMAIN df.rows[idx[n]].vals |-> Filled(idx[n], c)]]]]

\* df.drop_duplicates(subset='property_id', keep='first'): a row is a
\* duplicate when an earlier row has the same id, NaN counting as an id
DropDuplicates(df) ==
    LET First(i) == \A j \in 1..(i - 1) :
                        df.rows[j].vals["property_id"] # df.rows[i].vals["property_id"]
        idx == SelectSeq([i \in 1..Len(df.rows) |-> i], First)
    IN [cols |-> df.cols, rows |-> [n \in 1..Len(idx) |-> df.rows[idx[n]]]]

\* combine_csv_files of combine_csv.py
CombineCsvCombine ==
    /\ pc = "start"
    /\ combined_df' = DropDuplicates(Concat(Loaded1, Loaded2))
    /\ pc' = "done"
    /\ UNCHANGED <<file1, file2, field_name, value, cleaned, recleaned,
                 item, raw_item, result,
                   again, crawlVars, exportVars>>

NextDedup == CombineCsvCombine

SpecDedup == InitFiles /\ [][NextDedup]_vars

\* drop_duplicates of combine_csv.py, line 41, applied to its own result
DropDuplicatesAgain ==
    /\ pc = "done"
    /\ again' = DropDuplicates(combined_df)
    /\ pc' = "again"
    /\ UNCHANGED <<file1, file2, combined_df, field_name, value, cleaned, recleaned,
                   item, raw_item, result, crawlVars, exportVars>>

NextRededup == CombineCsvCombine \/ DropDuplicatesAgain

SpecRededup == InitFiles /\ [][NextRededup]_vars

(***************************************************************************)
(* Texts.  A text is a sequence of characters, a character a string of     *)
(* length one.  Three characters outside ASCII are written by name: EURO   *)
(* is the euro sign, SUP2 the superscript two of a square metre and NBSP   *)
(* the no-break space U+00A0, which Python counts as white space           *)
(* (str.strip, \s, int) but which is not the character ' '.                *)
(***************************************************************************)
UpperCase == <<"A", "B", "C", "D", "E", "F", "G", "H", "I", "J", "K", "L", "M",
               "N", "O", "P", "Q", "R", "S", "T", "U", "V", "W", "X", "Y", "Z">>
LowerCase == <<"a", "b", "c", "d", "e", "f", "g", "h", "i", "j", "k", "l", "m",
               "n", "o", "p", "q", "r", "s", "t", "u", "v", "w", "x", "y", "z">>

IsDigit(c) == c \in Range(Digits)
IsSpace(c) == c \in {" ", "NBSP"}
DigitVal(c) == (CHOOSE i \in 1..10 : Digits[i] = c) - 1

\* str.lower()
LowerChar(c) ==
    IF c \in Range(UpperCase)
    THEN LowerCase[CHOOSE i \in 1..26 : UpperCase[i] = c]
    ELSE c
Lower(s) == [i \in 1..Len(s) |-> LowerChar(s[i])]

\* str.strip()
RECURSIVE LStrip(_)
LStrip(s) == IF s # <<>> /\ IsSpace(Head(s)) THEN LStrip(Tail(s)) ELSE s
RECURSIVE RStrip(_)
RStrip(s) ==
    IF s # <<>> /\ IsSpace(s[Len(s)]) THEN RStrip(SubSeq(s, 1, Len(s) - 1)) ELSE s
Strip(s) == RStrip(LStrip(s))

\* sub in s
Contains(s, sub) ==
    \E i \in 0..(Len(s) - Len(sub)) : SubSeq(s, i + 1, i + Len(sub)) = sub

\* s.startswith(pre)
StartsWith(s, pre) == Len(pre) <= Len(s) /\ SubSeq(s, 1, Len(pre)) = pre

\* s with every character of the set cs removed: s.replace(c, ''), re.sub('[cs]', '', s)
Remove(s, cs) == SelectSeq(s, LAMBDA c : c \notin cs)

\* the value of a non-empty text of digits
RECURSIVE DigitsValue(_)
DigitsValue(s) ==
    IF s = <<>> THEN 0
    ELSE 10 * DigitsValue(SubSeq(s, 1, Len(s) - 1)) + DigitVal(s[Len(s)])

AllDigits(s) == s # <<>> /\ \A i \in 1..Len(s) : IsDigit(s[i])

\* int(s): white space around the number is ignored, a sign is accepted, and
\* anything else than digits raises ValueError (ok = FALSE).  The texts of the
\* model hold no '_' and no digit outside 0-9.
PyInt(s) ==
    LET t == Strip(s)
        signed == t # <<>> /\ Head(t) \in {"-", "+"}
        body == IF signed THEN Tail(t) ELSE t
    IN IF AllDigits(body)
       THEN [ok |-> TRUE,
             n |-> IF signed /\ Head(t) = "-" THEN 0 - DigitsValue(body)
                   ELSE DigitsValue(body)]
       ELSE [ok |-> FALSE, n |-> 0]

\* re.search(r'([\d\s,]+)', s): the first maximal run of digits, white space
\* and commas (found = FALSE when s has no such character)
InRunClass(c) == IsDigit(c) \/ IsSpace(c) \/ c = ","
ReSearchRun(s) ==
    IF \E i \in 1..Len(s) : InRunClass(s[i])
    THEN LET first == CHOOSE i \in 1..Len(s) :
                        /\ InRunClass(s[i])
                        /\ \A j \in 1..(i - 1) : ~InRunClass(s[j])
             last == CHOOSE k \in first..Len(s) :
                        /\ \A j \in first..k : InRunClass(s[j])
                        /\ k = Len(s) \/ ~InRunClass(s[k + 1])
         IN [found |-> TRUE, group |-> SubSeq(s, first, last)]
    ELSE [found |-> FALSE, group |-> <<>>]

\* float(number_str) if '.' in number_str else int(number_str), None on ValueError
ParseNumber(number_str) ==
    IF "." \in Range(number_str)
    THEN PyFloat(number_str)
    ELSE IF PyInt(number_str).ok THEN PyIntValue(PyInt(number_str).n) ELSE None

Unavailable ==
    { <<"(", "i", "n", "f", "o", "r", "m", "a", "t", "i", "o", "n", " ", "n", "o", "t", " ", "a", "v", "a", "i", "l", "a", "b", "l", "e", ")">>,
      <<"N", "o", "t", " ", "a", "p", "p", "l", "i", "c", "a", "b", "l", "e">>,
      <<>> }

(***************************************************************************)
(* DataCleaningPipeline (pipelines.py).                                    *)
(***************************************************************************)
looks_like_binary(value_str) ==
    Strip(Lower(value_str)) \in
      {<<"y", "e", "s">>, <<"n", "o">>, <<"y">>, <<"n">>, <<"t", "r", "u", "e">>,
       <<"f", "a", "l", "s", "e">>, <<"0">>, <<"1">>}

\* a _clean_binary that compares without lower-casing
clean_binary_case_sensitive(v) ==
    IF Falsy(v) THEN None
    ELSE LET value_str == Strip(ToText(v))
         IN IF value_str \in {<<"y", "e", "s">>, <<"y">>, <<"1">>, <<"t", "r", "u", "e">>}
            THEN PyIntValue(1)
            ELSE IF value_str \in {<<"n", "o">>, <<"n">>, <<"0">>,
                                   <<"f", "a", "l", "s", "e">>}
            THEN PyIntValue(0)
            ELSE None

clean_binary(v) ==
    IF Falsy(v) THEN None
    ELSE LET value_str == Lower(Strip(ToText(v)))
         IN IF value_str \in {<<"y", "e", "s">>, <<"y">>, <<"1">>, <<"t", "r", "u", "e">>}
            THEN PyIntValue(1)
            ELSE IF value_str \in {<<"n", "o">>, <<"n">>, <<"0">>,
                                   <<"f", "a", "l", "s", "e">>}
            THEN PyIntValue(0)
            ELSE None

clean_area(v) ==
    IF Falsy(v) THEN None
    ELSE LET value_str == Strip(ToText(v))
             match == ReSearchRun(value_str)
         IN IF value_str \in Unavailable THEN None
            ELSE IF match.found
            THEN ParseNumber(Remove(Remove(match.group, {" "}), {","}))
            ELSE None

\* a _clean_energy that leaves the commas in the number
clean_energy_keeps_commas(v) ==
    IF Falsy(v) THEN None
    ELSE LET value_str == Strip(ToText(v))
             match == ReSearchRun(value_str)
         IN IF value_str \in Unavailable THEN None
            ELSE IF match.found
            THEN ParseNumber(Remove(match.group, {" "}))
            ELSE None

clean_energy(v) ==
    IF Falsy(v) THEN None
    ELSE LET value_str == Strip(ToText(v))
             match == ReSearchRun(value_str)
         IN IF value_str \in Unavailable THEN None
            ELSE IF match.found
            THEN ParseNumber(Remove(Remove(match.group, {" "}), {","}))
            ELSE None

\* a _clean_currency that removes ' ' instead of all white space
clean_currency_ascii_space(v) ==
    IF Falsy(v) THEN None
    ELSE LET value_str == Strip(ToText(v))
             stripped == Remove(value_str, {"EURO", "$", " "})
         IN IF value_str \in Unavailable THEN None
            ELSE IF PyInt(stripped).ok THEN PyIntValue(PyInt(stripped).n) ELSE None

clean_currency(v) ==
    IF Falsy(v) THEN None
    ELSE LET value_str == Strip(ToText(v))
             stripped == Remove(value_str, {"EURO", "$", " ", "NBSP"})
         IN IF value_str \in Unavailable THEN None
            ELSE IF PyInt(stripped).ok THEN PyIntValue(PyInt(stripped).n) ELSE None

\* a _clean_integer without the except clause around int()
clean_integer_uncaught(v) ==
    IF Falsy(v) THEN None
    ELSE LET value_str == Strip(ToText(v))
             stripped == Remove(Remove(value_str, {" "}), {","})
         IN IF value_str \in Unavailable THEN None
            ELSE IF PyInt(stripped).ok THEN PyIntValue(PyInt(stripped).n) ELSE Raised

clean_integer(v) ==
    IF Falsy(v) THEN None
    ELSE LET value_str == Strip(ToText(v))
             stripped == Remove(Remove(value_str, {" "}), {","})
         IN IF value_str \in Unavailable THEN None
            ELSE IF PyInt(stripped).ok THEN PyIntValue(PyInt(stripped).n) ELSE None

empty_values ==
    { <<"(", "i", "n", "f", "o", "r", "m", "a", "t", "i", "o", "n", " ", "n", "o", "t", " ", "a", "v", "a", "i", "l", "a", "b", "l", "e", ")">>,
      <<"n", "o", "t", " ", "a", "p", "p", "l", "i", "c", "a", "b", "l", "e">>,
      <<"n", "o", " ", "c", "e", "r", "t", "i", "f", "i", "c", "a", "t", "e">>,
      <<"a", "r", "e", "a", " ", "i", "n", "f", "o", " ", "n", "o", "t", " ", "a", "v", "a", "i", "l", "a", "b", "l", "e">>,
      <<>> }

\* a _clean_empty that compares without lower-casing
clean_empty_case_sensitive(v) ==
    IF Falsy(v) THEN None
    ELSE IF Strip(ToText(v)) \in empty_values THEN None
    ELSE v

\* a _clean_empty that returns the lower-cased text it compared
clean_empty_returns_lowered(v) ==
    IF Falsy(v) THEN None
    ELSE IF Lower(Strip(ToText(v))) \in empty_values THEN None
    ELSE PyStr(Lower(Strip(ToText(v))))

clean_empty(v) ==
    IF Falsy(v) THEN None
    ELSE IF Lower(Strip(ToText(v))) \in empty_values THEN None
    ELSE v

currency_fields == { <<"p", "r", "i", "c", "e">>, <<"c", "a", "d", "a", "s", "t", "r", "a", "l", "_", "i", "n", "c", "o", "m", "e">> }
area_fields == { <<"g", "a", "r", "d", "e", "n">>,
                 <<"t", "e", "r", "r", "a", "c", "e">>,
                 <<"t", "o", "t", "a", "l", "_", "l", "a", "n", "d", "_", "s", "u", "r", "f", "a", "c", "e">>,
                 <<"l", "i", "v", "a", "b", "l", "e", "_", "s", "u", "r", "f", "a", "c", "e">> }
integer_fields == { <<"b", "u", "i", "l", "d", "_", "y", "e", "a", "r">>,
                    <<"p", "o", "s", "t", "a", "l", "_", "c", "o", "d", "e">>,
                    <<"y", "e", "a", "r", "_", "o", "f", "_", "c", "o", "n", "s", "t", "r", "u", "c", "t", "i", "o", "n">> }
binary_keywords ==
    { <<"f", "u", "r", "n", "i", "s", "h", "e", "d">>,
      <<"a", "t", "t", "i", "c">>,
      <<"g", "a", "r", "a", "g", "e">>,
      <<"e", "l", "e", "v", "a", "t", "o", "r">>,
      <<"v", "a", "t">>,
      <<"l", "e", "a", "s", "e", "d">>,
      <<"w", "a", "t", "e", "r">>,
      <<"p", "r", "e", "e", "m", "p", "t", "i", "o", "n">>,
      <<"c", "e", "l", "l", "a", "r">>,
      <<"d", "i", "n", "i", "n", "g", "r", "o", "o", "m">>,
      <<"s", "w", "i", "m", "m", "i", "n", "g", "_", "p", "o", "o", "l">>,
      <<"p", "o", "o", "l">>,
      <<"d", "i", "s", "a", "b", "l", "e", "d">>,
      <<"s", "e", "w", "e", "r">>,
      <<"g", "a", "s">>,
      <<"p", "e", "r", "m", "i", "s", "s", "i", "o", "n">>,
      <<"g", "r", "a", "n", "t", "e", "d">>,
      <<"c", "o", "n", "n", "e", "c", "t", "i", "o", "n">>,
      <<"a", "l", "a", "r", "m">>,
      <<"p", "a", "r", "k", "i", "n", "g">> }

T_surface == <<"s", "u", "r", "f", "a", "c", "e">>
T_energy == <<"e", "n", "e", "r", "g", "y">>
T_consumption == <<"c", "o", "n", "s", "u", "m", "p", "t", "i", "o", "n">>
T_number_ == <<"n", "u", "m", "b", "e", "r", "_">>
T_kwh == <<"k", "w", "h">>

HasCurrencySymbol(value_str) == "EURO" \in Range(value_str) \/ "$" \in Range(value_str)
HasAreaUnit(value_str) ==
    Contains(value_str, <<"m", "SUP2">>) \/ Contains(value_str, <<"m", "2">>)
HasEnergyUnit(value_str) == Contains(Lower(value_str), T_kwh)

IsCurrencyName(field_lower) == field_lower \in currency_fields
IsAreaName(field_lower) ==
    Contains(field_lower, T_surface) \/ field_lower \in area_fields
IsEnergyName(field_lower) ==
    Contains(field_lower, T_energy) \/ Contains(field_lower, T_consumption)
IsIntegerName(field_lower) ==
    StartsWith(field_lower, T_number_) \/ field_lower \in integer_fields
IsBinaryName(field_lower) ==
    \E keyword \in binary_keywords : Contains(field_lower, keyword)

\* _smart_clean with the integer rule and the boolean-literal rule exchanged
smart_clean_binary_first(name, v) ==
    IF Falsy(v) THEN None
    ELSE LET value_str == Strip(ToText(v))
             field_lower == Lower(name)
         IN IF HasCurrencySymbol(value_str) \/ IsCurrencyName(field_lower)
            THEN clean_currency(PyStr(value_str))
            ELSE IF HasAreaUnit(value_str) \/ IsAreaName(field_lower)
            THEN clean_area(PyStr(value_str))
            ELSE IF HasEnergyUnit(value_str) \/ IsEnergyName(field_lower)
            THEN clean_energy(PyStr(value_str))
            ELSE IF looks_like_binary(value_str)
            THEN clean_binary(PyStr(value_str))
            ELSE IF IsIntegerName(field_lower)
            THEN clean_integer(PyStr(value_str))
            ELSE IF IsBinaryName(field_lower)
            THEN clean_binary(PyStr(value_str))
            ELSE clean_empty(PyStr(value_str))

\* _smart_clean with the area rule tried before the currency rule
smart_clean_area_first(name, v) ==
    IF Falsy(v) THEN None
    ELSE LET value_str == Strip(ToText(v))
             field_lower == Lower(name)
         IN IF HasAreaUnit(value_str) \/ IsAreaName(field_lower)
            THEN clean_area(PyStr(value_str))
            ELSE IF HasCurrencySymbol(value_str) \/ IsCurrencyName(field_lower)
            THEN clean_currency(PyStr(value_str))
            ELSE IF HasEnergyUnit(value_str) \/ IsEnergyName(field_lower)
            THEN clean_energy(PyStr(value_str))
            ELSE IF IsIntegerName(field_lower)
            THEN clean_integer(PyStr(value_str))
            ELSE IF looks_like_binary(value_str)
            THEN clean_binary(PyStr(value_str))
            ELSE IF IsBinaryName(field_lower)
            THEN clean_binary(PyStr(value_str))
            ELSE clean_empty(PyStr(value_str))

smart_clean(name, v) ==
    IF Falsy(v) THEN None
    ELSE LET value_str == Strip(ToText(v))
             field_lower == Lower(name)
         IN IF HasCurrencySymbol(value_str) \/ IsCurrencyName(field_lower)
            THEN clean_currency(PyStr(value_str))
            ELSE IF HasAreaUnit(value_str) \/ IsAreaName(field_lower)
            THEN clean_area(PyStr(value_str))
            ELSE IF HasEnergyUnit(value_str) \/ IsEnergyName(field_lower)
            THEN clean_energy(PyStr(value_str))
            ELSE IF IsIntegerName(field_lower)
            THEN clean_integer(PyStr(value_str))
            ELSE IF looks_like_binary(value_str)
            THEN clean_binary(PyStr(value_str))
            ELSE IF IsBinaryName(field_lower)
            THEN clean_binary(PyStr(value_str))
            ELSE clean_empty(PyStr(value_str))

(***************************************************************************)
(* The fields and raw values the cleaning is run on: the items of          *)
(* test_cleaning_pipeline.py, further listing texts, and every text of at  *)
(* most MaxLen characters over ShortAlphabet.                              *)
(***************************************************************************)
FieldNames ==
    { <<"p", "r", "i", "c", "e">>,
      <<"c", "a", "d", "a", "s", "t", "r", "a", "l", "_", "i", "n", "c", "o", "m", "e">>,
      <<"P", "r", "i", "c", "e">>,
      <<"l", "i", "v", "a", "b", "l", "e", "_", "s", "u", "r", "f", "a", "c", "e">>,
      <<"g", "a", "r", "d", "e", "n">>,
      <<"t", "o", "t", "a", "l", "_", "l", "a", "n", "d", "_", "s", "u", "r", "f", "a", "c", "e">>,
      <<"s", "p", "e", "c", "i", "f", "i", "c", "_", "p", "r", "i", "m", "a", "r", "y", "_", "e", "n", "e", "r", "g", "y", "_", "c", "o", "n", "s", "u", "m", "p", "t", "i", "o", "n">>,
      <<"n", "u", "m", "b", "e", "r", "_", "o", "f", "_", "b", "e", "d", "r", "o", "o", "m", "s">>,
      <<"b", "u", "i", "l", "d", "_", "y", "e", "a", "r">>,
      <<"p", "o", "s", "t", "a", "l", "_", "c", "o", "d", "e">>,
      <<"y", "e", "a", "r", "_", "o", "f", "_", "c", "o", "n", "s", "t", "r", "u", "c", "t", "i", "o", "n">>,
      <<"f", "u", "r", "n", "i", "s", "h", "e", "d">>,
      <<"g", "a", "r", "a", "g", "e">>,
      <<"m", "u", "n", "i", "c", "i", "p", "a", "l", "i", "t", "y">>,
      <<"p", "r", "o", "p", "e", "r", "t", "y", "_", "i", "d">>,
      <<"h", "a", "s", "_", "s", "o", "l", "a", "r", "_", "p", "a", "n", "e", "l", "s">>,
      <<"s", "a", "l", "e", "_", "p", "r", "i", "c", "e", "_", "e", "u", "r", "o", "s">>,
      <<"a", "n", "n", "u", "a", "l", "_", "e", "n", "e", "r", "g", "y", "_", "u", "s", "a", "g", "e">>,
      <<"d", "e", "m", "a", "r", "c", "a", "t", "e", "d", "_", "f", "l", "o", "o", "d", "i", "n", "g", "_", "a", "r", "e", "a">> }

SampleTexts ==
    { <<"2", "4", "5", " ", "0", "0", "0", " ", "EURO">>,
      <<"7", "5", "8", " ", "EURO">>,
      <<"3", "5", "0", " ", "0", "0", "0", " ", "EURO">>,
      <<"1", "4", "4", " ", "m", "SUP2">>,
      <<"2", "2", "0", " ", "m", "SUP2">>,
      <<"1", "8", " ", "m", "SUP2">>,
      <<"6", "2", "9", " ", "k", "W", "h", "/", "m", "SUP2", "/", "y", "e", "a", "r">>,
      <<"4", "5", "0", " ", "k", "W", "h", "/", "y", "e", "a", "r">>,
      <<"Y", "e", "s">>,
      <<"N", "o">>,
      <<"y", "e", "s">>,
      <<"n", "o">>,
      <<"t", "r", "u", "e">>,
      <<"F", "a", "l", "s", "e">>,
      <<"n">>,
      <<"0">>,
      <<"3">>,
      <<"1", "2">>,
      <<"1", "9", "5", "7">>,
      <<"2", "4", "8", "0">>,
      <<"1", " ", "2", "0", "0">>,
      <<"d", "e", "s", "s", "e", "l">>,
      <<" ", "D", "e", "s", "s", "e", "l", " ">>,
      <<"R", "B", "U", "6", "0", "9", "2", "8">>,
      <<"B", "e", "a", "u", "t", "i", "f", "u", "l", " ", "h", "o", "u", "s", "e">>,
      <<"n", "o", " ", "f", "l", "o", "o", "d", "i", "n", "g", " ", "a", "r", "e", "a">>,
      <<"(", "i", "n", "f", "o", "r", "m", "a", "t", "i", "o", "n", " ", "n", "o", "t", " ", "a", "v", "a", "i", "l", "a", "b", "l", "e", ")">>,
      <<"N", "o", "t", " ", "a", "p", "p", "l", "i", "c", "a", "b", "l", "e">>,
      <<"n", "o", "t", " ", "a", "p", "p", "l", "i", "c", "a", "b", "l", "e">>,
      <<"N", "O", "T", " ", "A", "P", "P", "L", "I", "C", "A", "B", "L", "E">>,
      <<"N", "o", " ", "c", "e", "r", "t", "i", "f", "i", "c", "a", "t", "e">>,
      <<"A", "r", "e", "a", " ", "i", "n", "f", "o", " ", "n", "o", "t", " ", "a", "v", "a", "i", "l", "a", "b", "l", "e">>,
      <<" ", "n", "o", "t", " ", "a", "p", "p", "l", "i", "c", "a", "b", "l", "e", " ">>,
      <<" ", " ", " ">>,
      <<"1", "4", "4", ".", "5", " ", "m", "SUP2">>,
      <<"a", "p", "p", "r", "o", "x", " ", "1", "4", "4", " ", "m", "SUP2">>,
      <<"p", "l", "o", "t", " ", "o", "f", " ", "2", "2", "0", " ", "m", "SUP2">>,
      <<"E", "P", "C", " ", "B", " ", "1", "2", "0", " ", "k", "W", "h">>,
      <<"1", ",", "2", "0", "0", " ", "m", "2">>,
      <<"m", "2", " ", "1", "4", "4">>,
      <<"$", " ", "5">>,
      <<"-", "5", " ", "EURO">>,
      <<"2", "4", "5", ".", "0", "0", "0", " ", "EURO">>,
      <<"1", "NBSP", "2", "0", "0", " ", "m", "SUP2">>,
      <<"1", "2", "0", " ", "K", "W", "H">> }

ShortAlphabet == {"1", " ", "NBSP", ",", ".", "EURO", "m", "SUP2", "y"}
ShortTexts == UNION {[1..n -> ShortAlphabet] : n \in 0..MaxLen}

RawValues == {None} \cup {PyStr(x) : x \in SampleTexts \cup ShortTexts}

InitClean ==
    /\ pc = "start"
    /\ field_name \in FieldNames
    /\ value \in RawValues
    /\ cleaned = None
    /\ recleaned = None
    /\ file1 = NoFrame
    /\ file2 = NoFrame
    /\ combined_df = NoFrame
    /\ item = NoItem
    /\ raw_item = NoItem
    /\ result = NoResult
    /\ again = NoFrame
    /\ NoCrawl
    /\ NoExport

\* one call of DataCleaningPipeline._smart_clean
SmartClean ==
    /\ pc = "start"
    /\ cleaned' = smart_clean(field_name, value)
    /\ pc' = "done"
    /\ UNCHANGED <<file1, file2, combined_df, field_name, value, recleaned,
                   item, raw_item, result,
                   again, crawlVars, exportVars>>

NextClean == SmartClean

SpecClean == InitClean /\ [][NextClean]_vars

\* a second call of _smart_clean, on the value the first call returned
ReClean ==
    /\ pc = "done"
    /\ recleaned' = smart_clean(field_name, cleaned)
    /\ pc' = "recleaned"
    /\ UNCHANGED <<file1, file2, combined_df, field_name, value, cleaned,
                   item, raw_item, result,
                   again, crawlVars, exportVars>>

NextReclean == SmartClean \/ ReClean

SpecReclean == InitClean /\ [][NextReclean]_vars

(***************************************************************************)
(* DataCleaningPipeline.process_item on a PropertyItem (items.py).  An     *)
(* item is a function from the fields it holds to their values.            *)
(***************************************************************************)
\* fields that PropertyItem declares
DeclaredFields ==
    { <<"p", "r", "i", "c", "e">>,
      <<"l", "i", "v", "a", "b", "l", "e", "_", "s", "u", "r", "f", "a", "c", "e">>,
      <<"g", "a", "r", "a", "g", "e">>,
      <<"m", "u", "n", "i", "c", "i", "p", "a", "l", "i", "t", "y">> }

\* raw values a spider stores in a field
ItemValues ==
    { PyStr(<<>>),
      PyStr(<<"2", "4", "5", " ", "0", "0", "0", " ", "EURO">>),
      PyStr(<<"Y", "e", "s">>),
      PyStr(<<"d", "e", "s", "s", "e", "l">>) }

\* the items a spider yields: any of the declared fields set
Items == UNION {[D -> ItemValues] : D \in SUBSET DeclaredFields}

\* ItemAdapter(item).field_names() of a scrapy.Item: the fields its class
\* declares, set or not
field_names(it) == DeclaredFields

\* adapter.get(field): None for a field that is not set
Get(it, field) == IF field \in DOMAIN it THEN it[field] ELSE None

\* the fields of the item after the loop of process_item
process_item(it) == [field \in field_names(it) |-> smart_clean(field, Get(it, field))]

InitItem ==
    /\ pc = "start"
    /\ item \in Items
    /\ raw_item = item
    /\ result = NoResult
    /\ again = NoFrame
    /\ NoCrawl
    /\ NoExport
    /\ field_name = NoText
    /\ value = None
    /\ cleaned = None
    /\ recleaned = None
    /\ file1 = NoFrame
    /\ file2 = NoFrame
    /\ combined_df = NoFrame

\* one call of DataCleaningPipeline.process_item: the fields are assigned in
\* the item that was passed in and that item is returned
ProcessItem ==
    /\ pc = "start"
    /\ item' = process_item(item)
    /\ result' = "item"
    /\ pc' = "processed"
    /\ UNCHANGED <<file1, file2, combined_df, field_name, value, cleaned,
                   recleaned, raw_item,
                   again, crawlVars, exportVars>>

NextItem == ProcessItem

SpecItem == InitItem /\ [][NextItem]_vars

(***************************************************************************)
(* ImmovlanHousesSpider (spiders/immovlan_houses.py).  The engine answers  *)
(* the requests the spider yields in any order; a callback is a generator  *)
(* that the engine resumes from one yield to the next, so the generators   *)
(* of several listing responses interleave.                                *)
(***************************************************************************)
\* int(max_pages) of the -a max_pages argument: any integer
MaxPagesValues == (0 - 1)..MaxPagesArg

\* hrefs of the anchors of a listing page
Hrefs ==
    { "/en/detail/a",
      "https://immovlan.be/en/detail/a",
      "https://immovlan.be/en/detail/b",
      "https://example.com/en/detail/c",
      "/en/contact" }
HrefLists == UNION {[1..n -> Hrefs] : n \in 0..MaxLinks}

\* re.search(r"/en/detail/", h)
IsDetailPath(h) == h # "/en/contact"

\* urljoin(response.url, href) on a listing page of https://immovlan.be
urljoin(href) ==
    IF href = "/en/detail/a" THEN "https://immovlan.be/en/detail/a"
    ELSE IF href = "/en/contact" THEN "https://immovlan.be/en/contact"
    ELSE href

\* "immovlan.be/en/detail/" in abs_url
OnImmovlan(abs_url) ==
    abs_url \in {"https://immovlan.be/en/detail/a", "https://immovlan.be/en/detail/b"}

DetailUrls == {urljoin(h) : h \in {x \in Hrefs : IsDetailPath(x) /\ OnImmovlan(urljoin(x))}}

\* a detail page as it is answered: the sections it has, and whether every
\* label of the sections is a field that PropertyItem declares (item[...] = ...
\* raises KeyError otherwise)
Responses == [has_financial : BOOLEAN, has_general : BOOLEAN, declared : BOOLEAN]

Req(callback, url) == [callback |-> callback, url |-> url]
ListingRequests == {Req("parse_listing", StartPage + k) : k \in 0..(MaxPagesArg - 1)}
DetailRequests ==
    {Req(cb, u) : cb \in {"parse_detail_static_first", "parse_detail_rendered"},
                  u \in DetailUrls}
AllRequests == ListingRequests \cup DetailRequests

InitCrawl ==
    /\ pc = "crawl"
    /\ max_pages \in MaxPagesValues
    /\ next_page = 0
    /\ metrics = [listing_pages_requested |-> 0, detail_links_found |-> 0,
                  detail_requests_sent |-> 0, items_exported |-> 0]
    /\ seen_details = {}
    /\ pending = [r \in AllRequests |-> 0]
    /\ listings = {}
    /\ items = <<>>
    /\ sent = [u \in DetailUrls |-> [static |-> 0, rendered |-> 0, lacking |-> 0]]
    /\ file1 = NoFrame
    /\ file2 = NoFrame
    /\ combined_df = NoFrame
    /\ again = NoFrame
    /\ field_name = NoText
    /\ value = None
    /\ cleaned = None
    /\ recleaned = None
    /\ item = NoItem
    /\ raw_item = NoItem
    /\ result = NoResult
    /\ NoExport

\* a start_requests whose range runs one page further
StartRequestsInclusive ==
    /\ pc = "crawl"
    /\ next_page <= max_pages
    /\ next_page < MaxPagesArg
    /\ metrics' = [metrics EXCEPT !.listing_pages_requested = @ + 1]
    /\ pending' = [pending EXCEPT ![Req("parse_listing", StartPage + next_page)] = @ + 1]
    /\ next_page' = next_page + 1
    /\ UNCHANGED <<pc, file1, file2, combined_df, again, field_name, value, cleaned,
                   recleaned, item, raw_item, result, max_pages, seen_details,
                   listings, items, sent, exportVars>>

\* start_requests up to its next yield
StartRequests ==
    /\ pc = "crawl"
    /\ next_page < max_pages
    /\ metrics' = [metrics EXCEPT !.listing_pages_requested = @ + 1]
    /\ pending' = [pending EXCEPT ![Req("parse_listing", StartPage + next_page)] = @ + 1]
    /\ next_page' = next_page + 1
    /\ UNCHANGED <<pc, file1, file2, combined_df, again, field_name, value, cleaned,
                   recleaned, item, raw_item, result, max_pages, seen_details,
                   listings, items, sent, exportVars>>

\* a listing page is answered and parse_listing is called: lines 139-140
ListingResponse ==
    /\ pc = "crawl"
    /\ \E r \in ListingRequests, hrefs \in HrefLists :
         /\ pending[r] > 0
         /\ pending' = [pending EXCEPT ![r] = @ - 1]
         /\ listings' = listings \cup
                          {[page |-> r.url, rest |-> SelectSeq(hrefs, IsDetailPath)]}
    /\ UNCHANGED <<pc, file1, file2, combined_df, again, field_name, value, cleaned,
                   recleaned, item, raw_item, result, max_pages, next_page, metrics,
                   seen_details, items, sent, exportVars>>

\* a loop of parse_listing that does not look at _seen_details
NextYieldUnseen(rest, seen) ==
    IF \E k \in 1..Len(rest) : OnImmovlan(urljoin(rest[k]))
    THEN CHOOSE k \in 1..Len(rest) :
            /\ OnImmovlan(urljoin(rest[k]))
            /\ \A j \in 1..(k - 1) : ~OnImmovlan(urljoin(rest[j]))
    ELSE 0

\* the loop of parse_listing, lines 142-148: the position of the first href
\* that is not skipped, 0 if all are
NextYield(rest, seen) ==
    IF \E k \in 1..Len(rest) : OnImmovlan(urljoin(rest[k])) /\ urljoin(rest[k]) \notin seen
    THEN CHOOSE k \in 1..Len(rest) :
            /\ OnImmovlan(urljoin(rest[k])) /\ urljoin(rest[k]) \notin seen
            /\ \A j \in 1..(k - 1) :
                 ~(OnImmovlan(urljoin(rest[j])) /\ urljoin(rest[j]) \notin seen)
    ELSE 0

\* parse_listing from one yield to the next, or to its end
ParseListing ==
    /\ pc = "crawl"
    /\ \E g \in listings :
         LET k == NextYield(g.rest, seen_details)
         IN IF k = 0
            THEN /\ listings' = listings \ {g}
                 /\ UNCHANGED <<seen_details, metrics, pending, sent>>
            ELSE LET abs_url == urljoin(g.rest[k])
                 IN /\ seen_details' = seen_details \cup {abs_url}
                    /\ metrics' = [metrics EXCEPT !.detail_links_found = @ + 1,
                                                  !.detail_requests_sent = @ + 1]
                    /\ pending' = [pending EXCEPT
                                     ![Req("parse_detail_static_first", abs_url)] = @ + 1]
                    /\ sent' = [sent EXCEPT ![abs_url].static = @ + 1]
                    /\ listings' = (listings \ {g}) \cup
                                     {[g EXCEPT !.rest = SubSeq(g.rest, k + 1, Len(g.rest))]}
    /\ UNCHANGED <<pc, file1, file2, combined_df, again, field_name, value, cleaned,
                   recleaned, item, raw_item, result, max_pages, next_page, items,
                   exportVars>>

HasBoth(response) == response.has_financial /\ response.has_general

\* the item _extract_item yields for a response
Extracted(url, response, rendered) ==
    [url |-> url, rendered |-> rendered,
     has_financial |-> response.has_financial, has_general |-> response.has_general]

\* a detail page is answered and parse_detail_static_first runs
DetailStaticResponse ==
    /\ pc = "crawl"
    /\ \E u \in DetailUrls, response \in Responses :
         /\ pending[Req("parse_detail_static_first", u)] > 0
         /\ IF HasBoth(response)
            THEN /\ pending' = [pending EXCEPT
                                  ![Req("parse_detail_static_first", u)] = @ - 1]
                 /\ UNCHANGED sent
                 /\ IF response.declared
                    THEN /\ metrics' = [metrics EXCEPT !.items_exported = @ + 1]
                         /\ items' = Append(items, Extracted(u, response, FALSE))
                    ELSE UNCHANGED <<metrics, items>>
            ELSE /\ pending' = [pending EXCEPT
                                  ![Req("parse_detail_static_first", u)] = @ - 1,
                                  ![Req("parse_detail_rendered", u)] = @ + 1]
                 /\ sent' = [sent EXCEPT ![u].rendered = @ + 1, ![u].lacking = @ + 1]
                 /\ UNCHANGED <<metrics, items>>
    /\ UNCHANGED <<pc, file1, file2, combined_df, again, field_name, value, cleaned,
                   recleaned, item, raw_item, result, max_pages, next_page,
                   seen_details, listings, exportVars>>

\* a parse_detail_rendered that extracts whatever the rendered page holds
DetailRenderedResponseUnchecked ==
    /\ pc = "crawl"
    /\ \E u \in DetailUrls, response \in Responses :
         /\ pending[Req("parse_detail_rendered", u)] > 0
         /\ pending' = [pending EXCEPT ![Req("parse_detail_rendered", u)] = @ - 1]
         /\ IF response.declared
            THEN /\ metrics' = [metrics EXCEPT !.items_exported = @ + 1]
                 /\ items' = Append(items, Extracted(u, response, TRUE))
            ELSE UNCHANGED <<metrics, items>>
    /\ UNCHANGED <<pc, file1, file2, combined_df, again, field_name, value, cleaned,
                   recleaned, item, raw_item, result, max_pages, next_page,
                   seen_details, listings, sent, exportVars>>

\* a parse_detail_rendered that asks for the page again when a section lacks
DetailRenderedResponseRetries ==
    /\ pc = "crawl"
    /\ \E u \in DetailUrls, response \in Responses :
         /\ pending[Req("parse_detail_rendered", u)] > 0
         /\ IF HasBoth(response)
            THEN /\ pending' = [pending EXCEPT ![Req("parse_detail_rendered", u)] = @ - 1]
                 /\ UNCHANGED sent
                 /\ IF response.declared
                    THEN /\ metrics' = [metrics EXCEPT !.items_exported = @ + 1]
                         /\ items' = Append(items, Extracted(u, response, TRUE))
                    ELSE UNCHANGED <<metrics, items>>
            ELSE /\ sent[u].rendered < 3
                 /\ sent' = [sent EXCEPT ![u].rendered = @ + 1]
                 /\ UNCHANGED <<pending, metrics, items>>
    /\ UNCHANGED <<pc, file1, file2, combined_df, again, field_name, value, cleaned,
                   recleaned, item, raw_item, result, max_pages, next_page,
                   seen_details, listings, exportVars>>

\* a rendered detail page is answered and parse_detail_rendered runs
DetailRenderedResponse ==
    /\ pc = "crawl"
    /\ \E u \in DetailUrls, response \in Responses :
         /\ pending[Req("parse_detail_rendered", u)] > 0
         /\ pending' = [pending EXCEPT ![Req("parse_detail_rendered", u)] = @ - 1]
         /\ IF HasBoth(response) /\ response.declared
            THEN /\ metrics' = [metrics EXCEPT !.items_exported = @ + 1]
                 /\ items' = Append(items, Extracted(u, response, TRUE))
            ELSE UNCHANGED <<metrics, items>>
    /\ UNCHANGED <<pc, file1, file2, combined_df, again, field_name, value, cleaned,
                   recleaned, item, raw_item, result, max_pages, next_page,
                   seen_details, listings, sent, exportVars>>

\* a request that the downloader fails, or answers with an error status: no
\* callback is called
FetchFails ==
    /\ pc = "crawl"
    /\ \E r \in AllRequests :
         /\ pending[r] > 0
         /\ pending' = [pending EXCEPT ![r] = @ - 1]
    /\ UNCHANGED <<pc, file1, file2, combined_df, again, field_name, value, cleaned,
                   recleaned, item, raw_item, result, max_pages, next_page, metrics,
                   seen_details, listings, items, sent, exportVars>>

NextCrawl ==
    \/ StartRequests
    \/ ListingResponse
    \/ ParseListing
    \/ DetailStaticResponse
    \/ DetailRenderedResponse
    \/ FetchFails

SpecCrawl == InitCrawl /\ [][NextCrawl]_vars

(***************************************************************************)
(* DynamicCsvItemExporter (spiders/immovlan_houses.py, immoeliza_spider.py)*)
(* on top of scrapy's CsvItemExporter.  An item is the sequence of its     *)
(* keys, in the order they were set, and the values it holds for them.     *)
(***************************************************************************)
\* the keys of an item: _extract_item sets url first, then the labels of the
\* page in the order of the page
ExportKeySeqs ==
    { <<"url">>, <<"url", "price">>, <<"url", "garage">>,
      <<"url", "price", "garage">>, <<"url", "garage", "price">> }
ExportItems == [keys : ExportKeySeqs, page : 1..NumVals]

\* FEED_EXPORT_FIELDS of the feed: unset, or a list of fields
ConfiguredFields == { <<>>, <<"price", "url">> }

\* a cell of a data row: the value the item holds for the field, "" as the
\* default_value of a field the item does not hold
CellOf(it, field) ==
    IF field \in Range(it.keys) THEN [field |-> field, page |-> it.page]
    ELSE [field |-> "", page |-> 0]

\* a serializer that writes the fields of the item itself
get_serialized_fields_of_item(it, fields) ==
    [k \in 1..Len(it.keys) |-> CellOf(it, it.keys[k])]

\* BaseItemExporter._get_serialized_fields(item, default_value="",
\* include_empty=True) with fields_to_export a list: one cell per field
get_serialized_fields(it, fields) ==
    [k \in 1..Len(fields) |-> CellOf(it, fields[k])]

\* _write_headers_and_set_fields_to_export, lines 15-18: fields_to_export after it
set_fields_to_export(it, fields) ==
    IF fields = <<>> THEN it.keys ELSE fields

InitExport ==
    /\ pc = "export"
    /\ feed_fields \in ConfiguredFields
    /\ fields_to_export = feed_fields
    /\ headers_not_written = TRUE
    /\ csv = <<>>
    /\ exported = <<>>
    /\ file1 = NoFrame
    /\ file2 = NoFrame
    /\ combined_df = NoFrame
    /\ again = NoFrame
    /\ field_name = NoText
    /\ value = None
    /\ cleaned = None
    /\ recleaned = None
    /\ item = NoItem
    /\ raw_item = NoItem
    /\ result = NoResult
    /\ NoCrawl

\* CsvItemExporter.export_item: the header once, then the row of the item
ExportItem ==
    /\ pc = "export"
    /\ Len(exported) < MaxExports
    /\ \E it \in ExportItems :
         LET fields == IF headers_not_written
                       THEN set_fields_to_export(it, fields_to_export)
                       ELSE fields_to_export
             header == IF headers_not_written THEN <<fields>> ELSE <<>>
         IN /\ fields_to_export' = fields
            /\ headers_not_written' = FALSE
            /\ csv' = csv \o header \o <<get_serialized_fields(it, fields)>>
            /\ exported' = Append(exported, it)
    /\ UNCHANGED <<pc, file1, file2, combined_df, again, field_name, value, cleaned,
                   recleaned, item, raw_item, result, crawlVars, feed_fields>>

NextExport == ExportItem

SpecExport == InitExport /\ [][NextExport]_vars

(***************************************************************************)
(* The record merger: properties of clean_data.combine_csv_files.          *)
(* Side A is the frame loaded from file1 and side B the frame loaded from  *)
(* file2, as they stand at line 33.                                        *)
(***************************************************************************)
SideA(i) == Loaded1.rows[i].vals
SideB(j) == Loaded2.rows[j].vals
RowsA == 1..Len(file1.rows)
RowsB == 1..Len(file2.rows)
KeyA(i) == file1.rows[i]["property_id"]
KeyB(j) == file2.rows[j]["property_id"]
KeysA == {KeyA(i) : i \in RowsA}
KeysB == {KeyB(j) : j \in RowsB}
Out == combined_df.rows
UnionSchema == Range(Loaded1.cols) \cup Range(Loaded2.cols)
IsMerged(r) == r.a # 0 /\ r.b # 0

PassesThrough(n, r) ==
    \A c \in Range(combined_df.cols) : Out[n].vals[c] = Cell(r, c)

\* C2: a record whose key is absent from the other side is in the output
\* exactly once, its own values unchanged and the fields it lacks null.
C2_UnmatchedPassThrough ==
    pc = "done" =>
      /\ Range(combined_df.cols) = UnionSchema
      /\ \A i \in RowsA :
           (KeyA(i) # NULL /\ KeyA(i) \notin KeysB) =>
             /\ Cardinality({n \in 1..Len(Out) : Out[n].a = i}) = 1
             /\ \A n \in 1..Len(Out) :
                  Out[n].a = i => Out[n].b = 0 /\ PassesThrough(n, SideA(i))
      /\ \A j \in RowsB :
           (KeyB(j) # NULL /\ KeyB(j) \notin KeysA) =>
             /\ Cardinality({n \in 1..Len(Out) : Out[n].b = j}) = 1
             /\ \A n \in 1..Len(Out) :
                  Out[n].b = j => Out[n].a = 0 /\ PassesThrough(n, SideB(j))

\* both sides have an unmatched record, the one of file2 lacking the price
\* field of file1
C2_Witness ==
    /\ pc = "done"
    /\ "price" \in Range(file1.cols) /\ "price" \notin Range(file2.cols)
    /\ \E n, m \in 1..Len(Out) :
         /\ Out[n].a # 0 /\ Out[n].b = 0 /\ Out[n].vals["property_id"] # NULL
         /\ Out[n].vals["price"] # NULL
         /\ Out[m].b # 0 /\ Out[m].a = 0 /\ Out[m].vals["property_id"] # NULL
         /\ Out[m].vals["price"] = NULL

\* C3: a record without a key is never matched against the other side and
\* never dropped: it is in the output exactly once, as an unmatched record of
\* its own side.
C3_NullKeyUnmatched ==
    pc = "done" =>
      /\ \A i \in RowsA :
           KeyA(i) = NULL =>
             /\ Cardinality({n \in 1..Len(Out) : Out[n].a = i}) = 1
             /\ \A n \in 1..Len(Out) :
                  Out[n].a = i => Out[n].b = 0 /\ PassesThrough(n, SideA(i))
      /\ \A j \in RowsB :
           KeyB(j) = NULL =>
             /\ Cardinality({n \in 1..Len(Out) : Out[n].b = j}) = 1
             /\ \A n \in 1..Len(Out) :
                  Out[n].b = j => Out[n].a = 0 /\ PassesThrough(n, SideB(j))


(***************************************************************************)
(* The deduplicator: properties of combine_csv.combine_csv_files.  Its     *)
(* input is the concatenation of the two loaded frames; the position of a  *)
(* row in that input is Pos.                                               *)
(***************************************************************************)
Pos(r) == IF r.a # 0 THEN r.a ELSE Len(file1.rows) + r.b
InputRows == Concat(Loaded1, Loaded2).rows
InputKey(p) == InputRows[p].vals["property_id"]
IsFirstOfKey(p) == \A q \in 1..(p - 1) : InputKey(q) # InputKey(p)

\* C4: of the records with one key exactly the first in input order is kept,
\* unchanged, and the kept records are in their input order.
C4_DedupKeepsFirst ==
    pc = "done" =>
      /\ \A n \in 1..Len(Out) :
           /\ Pos(Out[n]) \in 1..Len(InputRows)
           /\ Out[n] = InputRows[Pos(Out[n])]
      /\ \A n, m \in 1..Len(Out) : n < m => Pos(Out[n]) < Pos(Out[m])
      /\ \A p \in 1..Len(InputRows) :
           InputKey(p) # NULL =>
             (IsFirstOfKey(p) <=> \E n \in 1..Len(Out) : Pos(Out[n]) = p)

\* a key occurs twice in file1 with different prices and again in file2, and
\* another key follows: the first record of each is what is left
C4_Witness ==
    /\ pc = "done"
    /\ Len(file1.rows) = 2 /\ Len(file2.rows) = 2
    /\ "price" \in Range(file1.cols) /\ "price" \in Range(file2.cols)
    /\ KeyA(1) # NULL /\ KeyA(2) = KeyA(1) /\ KeyB(1) = KeyA(1)
    /\ KeyB(2) # NULL /\ KeyB(2) # KeyA(1)
    /\ file1.rows[1]["price"] # NULL /\ file1.rows[2]["price"] # NULL
    /\ file1.rows[1]["price"] # file1.rows[2]["price"]
    /\ Len(Out) = 2
    /\ Out[1].vals["price"] = file1.rows[1]["price"]
    /\ Out[2].b = 2

\* C5: every record without a key is in the output of the deduplicator.
C5_NullKeysKept ==
    pc = "done" =>
      \A p \in 1..Len(InputRows) :
        InputKey(p) = NULL => \E n \in 1..Len(Out) : Pos(Out[n]) = p

(***************************************************************************)
(* The field cleaning pipeline: properties of _smart_clean.                *)
(***************************************************************************)
Cleaned == pc = "done" /\ field_name \in FieldNames
RawText == Strip(ToText(value))
FieldLower == Lower(field_name)

NoDataLiterals ==
    { <<"(", "i", "n", "f", "o", "r", "m", "a", "t", "i", "o", "n", " ", "n", "o", "t", " ", "a", "v", "a", "i", "l", "a", "b", "l", "e", ")">>,
      <<"n", "o", "t", " ", "a", "p", "p", "l", "i", "c", "a", "b", "l", "e">>,
      <<"n", "o", " ", "c", "e", "r", "t", "i", "f", "i", "c", "a", "t", "e">>,
      <<"a", "r", "e", "a", " ", "i", "n", "f", "o", " ", "n", "o", "t", " ", "a", "v", "a", "i", "l", "a", "b", "l", "e">> }

IsNoData(v) ==
    \/ v = None
    \/ v.t = "str" /\ Strip(v.s) = <<>>
    \/ v.t = "str" /\ Lower(Strip(v.s)) \in NoDataLiterals

\* C6: a raw value that is null, empty or, whatever its case, a no-data
\* literal is cleaned to null under every field name.
C6_NoDataIsNull == (Cleaned /\ IsNoData(value)) => cleaned = None

\* a no-data literal in capitals under a field that the currency rule takes by
\* its name
C6_Witness ==
    /\ Cleaned
    /\ field_name = <<"p", "r", "i", "c", "e">>
    /\ value = PyStr(<<"N", "O", "T", " ", "A", "P", "P", "L", "I", "C", "A", "B", "L", "E">>)
    /\ cleaned = None

\* the rule a content signal of the value points at
HasContentSignal(t) ==
    HasCurrencySymbol(t) \/ HasAreaUnit(t) \/ HasEnergyUnit(t) \/ looks_like_binary(t)
CleanByContent(t) ==
    IF HasCurrencySymbol(t) THEN clean_currency(PyStr(t))
    ELSE IF HasAreaUnit(t) THEN clean_area(PyStr(t))
    ELSE IF HasEnergyUnit(t) THEN clean_energy(PyStr(t))
    ELSE IF looks_like_binary(t) THEN clean_binary(PyStr(t))
    ELSE clean_empty(PyStr(t))

HasNameSignal(f) ==
    \/ IsCurrencyName(f) \/ IsAreaName(f) \/ IsEnergyName(f)
    \/ IsIntegerName(f) \/ IsBinaryName(f)

\* the rules in their order: the number of the first rule that the value or
\* the field name matches
RuleMatches(k, f, t) ==
    CASE k = 1 -> HasCurrencySymbol(t) \/ IsCurrencyName(f)
      [] k = 2 -> HasAreaUnit(t) \/ IsAreaName(f)
      [] k = 3 -> HasEnergyUnit(t) \/ IsEnergyName(f)
      [] k = 4 -> IsIntegerName(f)
      [] k = 5 -> looks_like_binary(t) \/ IsBinaryName(f)
      [] OTHER -> TRUE
FirstRule(f, t) ==
    CHOOSE k \in 1..6 : RuleMatches(k, f, t) /\ \A j \in 1..(k - 1) : ~RuleMatches(j, f, t)
Normalize(k, t) ==
    CASE k = 1 -> clean_currency(PyStr(t))
      [] k = 2 -> clean_area(PyStr(t))
      [] k = 3 -> clean_energy(PyStr(t))
      [] k = 4 -> clean_integer(PyStr(t))
      [] k = 5 -> clean_binary(PyStr(t))
      [] OTHER -> clean_empty(PyStr(t))

IntegerRuleApplies ==
    /\ Cleaned /\ ~Falsy(value)
    /\ IsIntegerName(FieldLower)
    /\ ~(HasCurrencySymbol(RawText) \/ IsCurrencyName(FieldLower))
    /\ ~(HasAreaUnit(RawText) \/ IsAreaName(FieldLower))
    /\ ~(HasEnergyUnit(RawText) \/ IsEnergyName(FieldLower))

BooleanWords ==
    { <<"y", "e", "s">>, <<"n", "o">>, <<"y">>, <<"n">>, <<"t", "r", "u", "e">>, <<"f", "a", "l", "s", "e">> }

CurrencyRuleApplies ==
    /\ Cleaned /\ ~Falsy(value)
    /\ HasCurrencySymbol(RawText) \/ IsCurrencyName(FieldLower)

CurrencyRest == SelectSeq(RawText, LAMBDA c : c \notin {"EURO", "$"} /\ ~IsSpace(c))

AreaOrEnergyRuleApplies ==
    /\ Cleaned /\ ~Falsy(value)
    /\ ~(HasCurrencySymbol(RawText) \/ IsCurrencyName(FieldLower))
    /\ \/ HasAreaUnit(RawText) \/ IsAreaName(FieldLower)
       \/ HasEnergyUnit(RawText) \/ IsEnergyName(FieldLower)

HasDigit(t) == \E i \in 1..Len(t) : IsDigit(t[i])

\* the first maximal run of digits, white space and commas that holds a digit
FirstDigitRun(t) ==
    LET d == CHOOSE i \in 1..Len(t) : IsDigit(t[i]) /\ \A j \in 1..(i - 1) : ~IsDigit(t[j])
        first == CHOOSE i \in 1..d :
                    /\ \A j \in i..d : InRunClass(t[j])
                    /\ i = 1 \/ ~InRunClass(t[i - 1])
        last == CHOOSE k \in d..Len(t) :
                    /\ \A j \in d..k : InRunClass(t[j])
                    /\ k = Len(t) \/ ~InRunClass(t[k + 1])
    IN SubSeq(t, first, last)

\* C10: the area and energy rules return, for every value that holds a digit,
\* the number of its first run of digits, spaces and commas, the spaces and
\* commas removed, wherever the run starts; null only if the value holds no
\* digit or the run cannot be parsed.
C10_AreaEnergyNumber ==
    AreaOrEnergyRuleApplies =>
        IF HasDigit(RawText)
        THEN LET number_str == Remove(FirstDigitRun(RawText), {" ", ","})
             IN IF PyInt(number_str).ok
                THEN cleaned = PyIntValue(PyInt(number_str).n)
                ELSE cleaned = None
        ELSE cleaned = None

BooleanRuleApplies ==
    /\ Cleaned /\ ~Falsy(value)
    /\ FirstRule(FieldLower, RawText) = 5

TrueWords == { <<"y", "e", "s">>, <<"y">>, <<"1">>, <<"t", "r", "u", "e">> }
FalseWords == { <<"n", "o">>, <<"n">>, <<"0">>, <<"f", "a", "l", "s", "e">> }

\* the boolean the trimmed, lower-cased text stands for
BooleanOf(t) ==
    IF Lower(Strip(t)) \in TrueWords THEN PyIntValue(1)
    ELSE IF Lower(Strip(t)) \in FalseWords THEN PyIntValue(0)
    ELSE None

\* C11: the boolean rule trims and lower-cases the value and returns 1 for
\* yes/y/1/true, 0 for no/n/0/false and null for every other value, free text
\* under a boolean field name and the no-data literals included; so its
\* result is 0, 1 or null.
C11_BooleanNormalization ==
    BooleanRuleApplies =>
        /\ cleaned = BooleanOf(ToText(value))
        /\ cleaned \in {PyIntValue(0), PyIntValue(1), None}
        /\ IsNoData(value) => cleaned = None

\* free text under a field whose name holds the keyword garage
C11_Witness ==
    /\ BooleanRuleApplies
    /\ field_name = <<"g", "a", "r", "a", "g", "e">>
    /\ value = PyStr(<<"d", "e", "s", "s", "e", "l">>)
    /\ cleaned = None

FreeTextApplies ==
    /\ Cleaned /\ ~Falsy(value)
    /\ FirstRule(FieldLower, RawText) = 6

\* C12: a value that no currency, area, energy, integer or boolean rule
\* takes is returned as its trimmed text, the characters unchanged, or as
\* null if the trimmed text is empty or, whatever its case, a no-data literal.
C12_FreeTextUnchanged ==
    FreeTextApplies =>
        cleaned = IF IsNoData(value) THEN None ELSE PyStr(RawText)

\* a text with capitals and white space around it under municipality
C12_Witness ==
    /\ FreeTextApplies
    /\ field_name = <<"m", "u", "n", "i", "c", "i", "p", "a", "l", "i", "t", "y">>
    /\ value.s # RawText
    /\ cleaned = PyStr(RawText)
    /\ Lower(RawText) # RawText

\* C13: cleaning a cleaned value again under the same field name returns the
\* cleaned value itself; a cleaned 0 stays 0.
C13_RecleanIdempotent ==
    (pc = "recleaned" /\ field_name \in FieldNames) => recleaned = cleaned

(***************************************************************************)
(* The field cleaning pipeline: properties of process_item.                *)
(***************************************************************************)
Processed == pc = "processed"

\* C14: after process_item the item holds exactly the fields it held before:
\* none dropped, none added.
C14_KeySetPreserved == Processed => DOMAIN item = DOMAIN raw_item

\* C15: process_item leaves the item it was given as it was and returns
\* another object, so the raw text of every field can still be read from the
\* item passed in.
C15_InputUnchanged == Processed => (item = raw_item /\ result # "item")

PythonValueKinds == {"none", "int", "float", "str"}

\* C16: for every field name and every raw value _smart_clean returns a value
\* or null; no exception leaves the call, a text that cannot be parsed as the
\* type of its rule gives null.
C16_NeverRaises ==
    Cleaned =>
        /\ cleaned # Raised
        /\ cleaned.t \in PythonValueKinds
        /\ (FirstRule(FieldLower, RawText) \in {1, 4} /\ ~HasDigit(RawText)) => cleaned = None

\* a word under a field of the integer rule: int() fails and null is returned
C16_Witness ==
    /\ Cleaned
    /\ field_name = <<"b", "u", "i", "l", "d", "_", "y", "e", "a", "r">>
    /\ value = PyStr(<<"B", "e", "a", "u", "t", "i", "f", "u", "l", " ", "h", "o", "u", "s", "e">>)
    /\ cleaned = None

(***************************************************************************)
(* The record merger: the union schema and the order of the output.        *)
(***************************************************************************)
ColsA == Range(Loaded1.cols)
ColsB == Range(Loaded2.cols)

\* the fields in the order they are first seen in A, then in B
FirstSeenCols ==
    Loaded1.cols \o SelectSeq(Loaded2.cols, LAMBDA c : c \notin ColsA)
FirstSeenPos(c) == CHOOSE k \in 1..Len(FirstSeenCols) : FirstSeenCols[k] = c

\* non-null values of a field over the records of A and of B
SchemaCount(c) ==
    Cardinality({i \in 1..Len(Loaded1.rows) : Cell(Loaded1.rows[i].vals, c) # NULL})
    + Cardinality({j \in 1..Len(Loaded2.rows) : Cell(Loaded2.rows[j].vals, c) # NULL})

\* C17: the output schema has property_id first, then the other fields by
\* falling count of non-null values over A and B; fields of equal count are
\* in the order they are first seen in A, then in B, whatever the run.
C17_SchemaOrder ==
    pc = "done" =>
        LET cols == combined_df.cols
        IN /\ cols[1] = "property_id"
           /\ \A i, j \in 2..Len(cols) :
                 i < j =>
                   \/ SchemaCount(cols[i]) > SchemaCount(cols[j])
                   \/ /\ SchemaCount(cols[i]) = SchemaCount(cols[j])
                      /\ FirstSeenPos(cols[i]) < FirstSeenPos(cols[j])

\* C18: the output schema is the union of the fields of A and of B, each
\* once, and every output record has exactly these fields; a record of A
\* alone is null in every field that only B has, a record of B alone in
\* every field that only A has, and a merged record takes the fields that
\* only one side has from that side.
C18_SchemaBackfill ==
    pc = "done" =>
        /\ Range(combined_df.cols) = ColsA \cup ColsB
        /\ Len(combined_df.cols) = Cardinality(ColsA \cup ColsB)
        /\ \A n \in 1..Len(Out) :
              /\ DOMAIN Out[n].vals = ColsA \cup ColsB
              /\ Out[n].b = 0 => \A c \in ColsB \ ColsA : Out[n].vals[c] = NULL
              /\ Out[n].a = 0 => \A c \in ColsA \ ColsB : Out[n].vals[c] = NULL
              /\ IsMerged(Out[n]) =>
                    /\ \A c \in ColsB \ ColsA :
                          Out[n].vals[c] = Loaded2.rows[Out[n].b].vals[c]
                    /\ \A c \in ColsA \ ColsB :
                          Out[n].vals[c] = Loaded1.rows[Out[n].a].vals[c]

\* a record of A alone with a price and no rooms field, a record of B alone
\* with rooms and no price field
C18_Witness ==
    /\ pc = "done"
    /\ "price" \in ColsA \ ColsB
    /\ "rooms" \in ColsB \ ColsA
    /\ \E n, m \in 1..Len(Out) :
         /\ Out[n].b = 0 /\ Out[n].vals["price"] # NULL /\ Out[n].vals["rooms"] = NULL
         /\ Out[m].a = 0 /\ Out[m].vals["rooms"] # NULL /\ Out[m].vals["price"] = NULL

\* the group of an output record: 1 unmatched of A, 2 unmatched of B, 3 merged
Group(r) == IF r.b = 0 THEN 1 ELSE IF r.a = 0 THEN 2 ELSE 3

\* C19: the output holds the unmatched records of A, then the unmatched
\* records of B, then the merged records; the records of a group are in the
\* order of their input, the merged records in the order of A.
C19_OutputOrder ==
    pc = "done" =>
        \A n, m \in 1..Len(Out) :
            n < m =>
              /\ Group(Out[n]) <= Group(Out[m])
              /\ Group(Out[n]) = Group(Out[m]) =>
                    IF Group(Out[n]) = 2 THEN Out[n].b < Out[m].b
                    ELSE Out[n].a <= Out[m].a

\* a decimal number in the text: digits, a point, digits
HasDecimalNumber(t) ==
    \E i \in 2..(Len(t) - 1) : t[i] = "." /\ IsDigit(t[i - 1]) /\ IsDigit(t[i + 1])

\* the first decimal number of the text
FirstDecimal(t) ==
    LET p == CHOOSE i \in 2..(Len(t) - 1) :
                /\ t[i] = "." /\ IsDigit(t[i - 1]) /\ IsDigit(t[i + 1])
                /\ \A j \in 2..(i - 1) :
                      ~(t[j] = "." /\ IsDigit(t[j - 1]) /\ IsDigit(t[j + 1]))
        first == CHOOSE i \in 1..(p - 1) :
                    /\ \A j \in i..(p - 1) : IsDigit(t[j])
                    /\ i = 1 \/ ~IsDigit(t[i - 1])
        last == CHOOSE k \in (p + 1)..Len(t) :
                    /\ \A j \in (p + 1)..k : IsDigit(t[j])
                    /\ k = Len(t) \/ ~IsDigit(t[k + 1])
    IN SubSeq(t, first, last)

\* C20: the area and energy rules return a float for a value whose number has
\* a decimal point, the digits after the point kept.
C20_DecimalKept ==
    (AreaOrEnergyRuleApplies /\ HasDecimalNumber(RawText)) =>
        cleaned = PyFloat(FirstDecimal(RawText))

(***************************************************************************)
(* The record merger: the property_type default.                           *)
(***************************************************************************)
\* the property_type a record has in its file, null if the file has no such
\* column or the cell is empty
ExplicitA(i) == Cell(file1.rows[i], "property_type")
ExplicitB(j) == Cell(file2.rows[j], "property_type")

\* C21: every output record has a property_type; it is the explicit type of
\* the record of A it comes from, else the explicit type of the record of B
\* it comes from, and a default only if neither source record has one.
C21_ExplicitTypeKept ==
    pc = "done" =>
        \A n \in 1..Len(Out) :
            LET type == Out[n].vals["property_type"]
                a == Out[n].a
                b == Out[n].b
            IN /\ type # NULL
               /\ (a # 0 /\ ExplicitA(a) # NULL) => type = ExplicitA(a)
               /\ (b # 0 /\ ExplicitB(b) # NULL /\ (a = 0 \/ ExplicitA(a) = NULL)) =>
                     type = ExplicitB(b)


(***************************************************************************)
(* The crawl of ImmovlanHousesSpider                                       *)
(***************************************************************************)
ItemsOf(u) == {n \in 1..Len(items) : items[n].url = u}
Rendered(u) == Req("parse_detail_rendered", u)
Static(u) == Req("parse_detail_static_first", u)

\* C22: every step that yields items yields them for a response that holds
\* both div.financial and div.general-info, and a step that handles a
\* rendered response issues no request; so a rendered response that lacks a
\* section yields no item and no request.
C22_ItemNeedsBothSections ==
    [][ /\ Len(items') >= Len(items)
        /\ SubSeq(items', 1, Len(items)) = items
        /\ \A n \in (Len(items) + 1)..Len(items') :
             items'[n].has_financial /\ items'[n].has_general
        /\ (\E u \in DetailUrls : pending'[Rendered(u)] < pending[Rendered(u)])
             => \A r \in AllRequests : pending'[r] <= pending[r] ]_vars

\* a rendered response with both sections gave an item, and the rendered
\* request of another URL ended without one
C22_Witness ==
    /\ pc = "crawl"
    /\ \E n \in 1..Len(items) : items[n].rendered
    /\ \E u \in DetailUrls :
         /\ sent[u].rendered = 1
         /\ pending[Rendered(u)] = 0
         /\ ItemsOf(u) = {}

\* C24: each absolute detail URL gets at most one static detail request in
\* the run, and it is in _seen_details exactly if that request was issued.
C24_OneStaticRequestPerUrl ==
    pc = "crawl" =>
        /\ seen_details \subseteq DetailUrls
        /\ \A u \in DetailUrls :
             /\ sent[u].static <= 1
             /\ (u \in seen_details) <=> (sent[u].static = 1)

\* the URL was requested, and a listing page handled later holds it again
C24_Witness ==
    /\ pc = "crawl"
    /\ \E g \in listings : \E k \in 1..Len(g.rest) :
         /\ urljoin(g.rest[k]) \in seen_details
         /\ sent[urljoin(g.rest[k])].static = 1

\* C25: a rendered request of a URL follows a static response of that URL
\* that lacked a section, one per such response, and a detail request is
\* either still waiting for its static or its rendered response, or has
\* ended with at most one item: at most two fetches and one item each.
C25_StaticFirstSingleFallback ==
    pc = "crawl" =>
        \A u \in DetailUrls :
            /\ sent[u].rendered = sent[u].lacking
            /\ sent[u].lacking <= sent[u].static
            /\ pending[Static(u)] + pending[Rendered(u)] + Cardinality(ItemsOf(u))
                 <= sent[u].static
            /\ pending[Static(u)] + sent[u].lacking <= sent[u].static
            /\ pending[Rendered(u)] <= sent[u].rendered

\* two fetches and one item: the static response lacked a section, the
\* rendered one had both
C25_Witness ==
    /\ pc = "crawl"
    /\ \E u \in DetailUrls :
         /\ sent[u].static = 1
         /\ sent[u].rendered = 1
         /\ pending[Rendered(u)] = 0
         /\ \E n \in ItemsOf(u) : items[n].rendered

Max(x, y) == IF x >= y THEN x ELSE y

CountersConsistent ==
    /\ metrics.detail_links_found = metrics.detail_requests_sent
    /\ metrics.detail_requests_sent = Cardinality(seen_details)
    /\ metrics.items_exported <= metrics.detail_requests_sent

CountersGrow ==
    /\ metrics'.listing_pages_requested >= metrics.listing_pages_requested
    /\ metrics'.detail_links_found >= metrics.detail_links_found
    /\ metrics'.detail_requests_sent >= metrics.detail_requests_sent
    /\ metrics'.items_exported >= metrics.items_exported

\* C30 as stated: the counters are consistent, listing_pages_requested never
\* exceeds max_pages, and no counter decreases.
C30_MetricsConsistent ==
    /\ [](pc = "crawl" =>
            /\ CountersConsistent
            /\ metrics.listing_pages_requested <= max_pages)
    /\ [][pc = "crawl" => CountersGrow]_vars

\* C30: the counters are consistent, listing_pages_requested never exceeds
\* max_pages where max_pages is not negative and stays 0 where it is, and no
\* counter decreases.
C30_MetricsConsistentFromZero ==
    /\ [](pc = "crawl" =>
            /\ CountersConsistent
            /\ metrics.listing_pages_requested <= Max(max_pages, 0)
            /\ metrics.items_exported = Len(items))
    /\ [][pc = "crawl" => CountersGrow]_vars

\* every page requested, both detail URLs requested, an item exported
C30_Witness ==
    /\ pc = "crawl"
    /\ max_pages = MaxPagesArg
    /\ metrics.listing_pages_requested = max_pages
    /\ metrics.detail_requests_sent = Cardinality(DetailUrls)
    /\ metrics.items_exported >= 1


(***************************************************************************)
(* The CSV feed of DynamicCsvItemExporter                                  *)
(***************************************************************************)
\* C23: where no fields_to_export is configured, the header is the keys of
\* the first exported item, in their order, fields_to_export stays that
\* list, and the row of every item holds exactly the columns of the header,
\* in that order: the value of the item, or "" for a field it does not hold.
C23_HeaderFromFirstItem ==
    (pc = "export" /\ feed_fields = <<>> /\ exported # <<>>) =>
        /\ csv[1] = exported[1].keys
        /\ fields_to_export = exported[1].keys
        /\ ~headers_not_written
        /\ Len(csv) = Len(exported) + 1
        /\ \A n \in 1..Len(exported) :
             /\ Len(csv[n + 1]) = Len(exported[1].keys)
             /\ \A k \in 1..Len(exported[1].keys) :
                  csv[n + 1][k] = CellOf(exported[n], exported[1].keys[k])

\* a later item with a field the first item lacks, and without a field the
\* first item holds, was written under the header of the first item
C23_Witness ==
    /\ pc = "export"
    /\ Len(exported) = MaxExports
    /\ feed_fields = <<>>
    /\ exported[1].keys = <<"url", "price">>
    /\ csv[1] = <<"url", "price">>
    /\ exported[2].keys = <<"url", "garage">>
    /\ exported[3].keys = <<"url", "garage", "price">>


(***************************************************************************)
(* The keys of the merge and of the deduplicator                           *)
(***************************************************************************)
OutKeys == {Out[n].vals["property_id"] : n \in 1..Len(Out)}
RecordsOf(k) == {n \in 1..Len(Out) : Out[n].vals["property_id"] = k}
UniqueWithinInputs ==
    /\ \A i, j \in RowsA : i # j => KeyA(i) # KeyA(j)
    /\ \A i, j \in RowsB : i # j => KeyB(i) # KeyB(j)

\* C26: the non-null keys of the merge output are the non-null keys of A and
\* of B; where no key occurs twice within an input, every key is on one
\* output record, and where every record has a key the output has as many
\* records as A and B have keys together.
C26_KeysConserved ==
    pc = "done" =>
      /\ OutKeys \ {NULL} = (KeysA \cup KeysB) \ {NULL}
      /\ UniqueWithinInputs =>
           /\ \A k \in OutKeys \ {NULL} : Cardinality(RecordsOf(k)) = 1
           /\ NULL \notin KeysA \cup KeysB =>
                Len(Out) = Cardinality(KeysA \cup KeysB)

\* two keys in file1, one of them in file2 as well: two output records
C26_Witness ==
    /\ pc = "done"
    /\ Len(file1.rows) = 2 /\ Len(file2.rows) = 1
    /\ KeyA(1) # NULL /\ KeyA(2) # NULL /\ KeyA(1) # KeyA(2)
    /\ KeyB(1) = KeyA(2)
    /\ Len(Out) = 2
    /\ \E n \in 1..Len(Out) : IsMerged(Out[n])


FirstOfKeyA(k) == CHOOSE i \in RowsA : KeyA(i) = k /\ \A j \in RowsA : KeyA(j) = k => i <= j

\* C27: for a key of both files the deduplicator keeps one record, the first
\* record of file1 with that key, and every field of the output holds the
\* value that record has in file1: a field it lacks stays null, whatever
\* file2 holds for it.
C27_DedupKeepsFileOneValues ==
    pc = "done" =>
      \A k \in (KeysA \cap KeysB) \ {NULL} :
        /\ Cardinality(RecordsOf(k)) = 1
        /\ \A n \in RecordsOf(k) :
             /\ Out[n].a = FirstOfKeyA(k)
             /\ Out[n].b = 0
             /\ \A c \in Range(combined_df.cols) :
                  Out[n].vals[c] = Cell(SideA(FirstOfKeyA(k)), c)

\* file1 has no price for the key and file2 has one: the output has none
C27_Witness ==
    /\ pc = "done"
    /\ \E i \in RowsA, j \in RowsB :
         /\ KeyA(i) # NULL /\ KeyA(i) = KeyB(j)
         /\ "price" \in Range(file1.cols)
         /\ file1.rows[i]["price"] = NULL
         /\ Cell(SideB(j), "price") # NULL
         /\ \E n \in RecordsOf(KeyA(i)) : Out[n].vals["price"] = NULL


\* C28: after the deduplication no two output records have the same key,
\* the output is a subsequence of the input, every key of the input is a key
\* of the output, and the deduplication of the output is the output.
C28_DedupIdempotent ==
    /\ pc \in {"done", "again"} =>
         /\ \A n, m \in 1..Len(Out) :
              (n # m /\ Out[n].vals["property_id"] # NULL) =>
                  Out[n].vals["property_id"] # Out[m].vals["property_id"]
         /\ \A n \in 1..Len(Out) :
              /\ Pos(Out[n]) \in 1..Len(InputRows)
              /\ Out[n] = InputRows[Pos(Out[n])]
         /\ \A n, m \in 1..Len(Out) : n < m => Pos(Out[n]) < Pos(Out[m])
         /\ {InputKey(p) : p \in 1..Len(InputRows)} = OutKeys
    /\ pc = "again" => again = combined_df

\* the input held a key three times and another key once; the second
\* deduplication had two records to look at
C28_Witness ==
    /\ pc = "again"
    /\ Len(InputRows) = 4
    /\ InputKey(1) # NULL /\ InputKey(2) = InputKey(1) /\ InputKey(3) = InputKey(1)
    /\ InputKey(4) # NULL /\ InputKey(4) # InputKey(1)
    /\ Len(again.rows) = 2


(***************************************************************************)
(* The Area and Energy normalizers                                         *)
(***************************************************************************)
\* C29: _clean_area and _clean_energy return the same result for every raw
\* value, so a value with the area unit and the energy unit, which
\* _smart_clean hands to _clean_area, is cleaned to what _clean_energy
\* returns for it.
C29_AreaIsEnergy ==
    /\ clean_area(value) = clean_energy(value)
    /\ clean_area(PyStr(RawText)) = clean_energy(PyStr(RawText))
    /\ (/\ pc = "done"
        /\ ~Falsy(value)
        /\ ~(HasCurrencySymbol(RawText) \/ IsCurrencyName(Lower(field_name)))
        /\ HasAreaUnit(RawText)
        /\ HasEnergyUnit(RawText))
         => cleaned = clean_energy(PyStr(RawText))

\* the energy consumption of the test item: both units, cleaned to 629
C29_Witness ==
    /\ pc = "done"
    /\ value = PyStr(<<"6", "2", "9", " ", "k", "W", "h", "/", "m", "SUP2", "/", "y", "e", "a", "r">>)
    /\ IsEnergyName(Lower(field_name))
    /\ HasAreaUnit(RawText)
    /\ HasEnergyUnit(RawText)
    /\ cleaned = PyIntValue(629)
    /\ clean_energy(value) = PyIntValue(629)

====
